---- MODULE Spec2Model ----
(***************************************************************************)
(* Part 1: balancebeam (proj-2): the upstream pool, the health checker, the        *)
(* selector with failover, the rate limiter and the connection handler of  *)
(* src/proj-2/balancebeam/src/main.rs.                                     *)
(*                                                                         *)
(* The specifications share the variables:                                 *)
(*   SpecPool  handlers inside connect_to_upstream racing with each other  *)
(*             and with health_check on active_upstream_addresses;         *)
(*   SpecConn  handlers inside the request loop of handle_connection,      *)
(*             sharing request_state;                                      *)
(*   SpecConnBusy  the same, on a client whose quota is already used;      *)
(*   SpecFull  one connection from accept to return, with health_check;    *)
(*   SpecMain  two connections inside connect_to_upstream, for every       *)
(*             health-check path and interval main may be given;           *)
(*   SpecAcquireFair  one connection inside connect_to_upstream, with      *)
(*             health_check, every task scheduled again and again.         *)
(* Part 2: rdiff (week2): lcs of src/week2/rdiff/src/main.rs, under        *)
(*   SpecLcs   one call of lcs on every pair of short sequences.            *)
(* Part 3: parallel_map (week6): src/week6/parallel_map/src/main.rs, under *)
(*   SpecParallelMap  one call on every short vector and thread count.     *)
(* Part 4: deet (proj-1): the command loop of                              *)
(*   src/proj-1/deet/src/debugger.rs, under                                *)
(*   SpecDeet  Debugger::run reading any sequence of commands.             *)
(* Part 5: hangman (week1): src/week1/part-3-hangman/src/main.rs, under    *)
(*   SpecHangman  one game on every short secret word.                     *)
(* Time is in whole seconds.                                               *)
(* Vec indices are 0-based as in the source; a TLA+ sequence is 1-based,   *)
(* so list[idx] of the source is list[idx + 1] here.                       *)
(***************************************************************************)
EXTENDS Integers, Sequences, FiniteSets, TLC

\* ------------------------------------------------------------- bounds
NumHandlers == 2
MaxReq == 3
\* rdiff: the longest sequence handed to lcs
MaxLen == 3
\* parallel_map: the longest input_vec and the largest num_threads
MaxItems == 3
MaxThreads == 2
\* deet: the most breakpoints set in one session
MaxBreakpoints == 2
\* hangman: the longest secret word
MaxWordLen == 3

\* ---------------------------------------------------------- constants
\* Duration::from_secs(60), in seconds
Window == 60

Handlers == 1..NumHandlers

\* ProxyState.upstream_addresses: the configured addresses, in command-line
\* order. An address is named by a positive integer.
upstream_addresses == <<1, 2>>

\* What peer_addr().ip().to_string() gives for a connection to addr: the
\* resolved IP without the port, a string other than the configured one.
PeerIp(addr) == 0 - addr

VARIABLES
  active_upstream_addresses, \* ProxyState.active_upstream_addresses (the Vec)
  hc_pc,          \* health_check: "sleeping" | "probing" (write lock held) | "stopped"
  hc_idx,         \* health_check: position of the for loop in upstream_addresses
  hc_ok,          \* history: addresses whose probe returned 200 in the current/last sweep
  hc_before,      \* history: the healthy set when the current/last sweep began
  pc,             \* per handler: position in handle_connection
  upstream_idx,   \* per handler: connect_to_upstream's upstream_idx
  upstream_ip,    \* per handler: connect_to_upstream's upstream_ip
  attempts,       \* history, per handler: TcpStream::connect calls made in connect_to_upstream
  sent,           \* history, per handler: status codes handed to send_response
  max_requests_per_minute, \* ProxyState.max_requests_per_minute
  active_health_check_path,     \* ProxyState.active_health_check_path
  active_health_check_interval, \* ProxyState.active_health_check_interval
  client_ip,      \* per handler: client_conn.peer_addr().ip()
  clock,          \* the latest value Instant::now() has returned
  now,            \* per handler: the local `now`
  request_state,  \* ProxyState.request_state: client ip -> VecDeque of Instants
  nreq,           \* history, per handler: requests read from the client so far
  last_req,       \* history, per handler: the outcome of the latest read_from_stream
  forwarded,      \* history, per handler: requests written to the upstream
  last_up,        \* history, per handler: the outcome of the latest upstream exchange
  log             \* history: the rate limiter's decisions, in lock order

\* rdiff
VARIABLES
  seq1,           \* lcs: the argument seq1
  seq2,           \* lcs: the argument seq2
  grid,           \* lcs: the local `grid`
  lcs_pc,         \* lcs: "idle" | "start" | "fill" | "done" | "panicked"
  lcs_i,          \* lcs: i of the outer fill loop
  lcs_j           \* lcs: j of the inner fill loop

rdiffVars == <<seq1, seq2, grid, lcs_pc, lcs_i, lcs_j>>

\* parallel_map
VARIABLES
  input_vec,      \* parallel_map: the argument input_vec
  num_threads,    \* parallel_map: the argument num_threads
  pm_pc,          \* parallel_map: "idle" | "send" | "spawn" | "collect" | "join" | "done"
  pm_i,           \* parallel_map: elements of input_vec sent so far
  chan1,          \* the queue of the channel (tx1, rx1)
  chan2,          \* the queue of the channel (tx2, rx2)
  worker_pc,      \* per spawned thread: "recv" | "send" | "exited"
  worker_num,     \* per spawned thread: the local `num`
  output_vec      \* parallel_map: output_vec

pmapVars == <<input_vec, num_threads, pm_pc, pm_i, chan1, chan2, worker_pc,
              worker_num, output_vec>>

\* deet
VARIABLES
  inferior,         \* Debugger.inferior: "None" | "Some"
  current_result,   \* Debugger.current_result
  breakpoints_list, \* Debugger.breakpoints_list: the addresses, in order
  breakpoints_map,  \* Debugger.breakpoints_map: the addresses that are keys
  breakpoint_count, \* Debugger.breakpoint_count
  deet_pc,          \* Debugger::run: "idle" | "prompt" | "returned" | "panicked"
  deet_out          \* history: what the latest command printed

deetVars == <<inferior, current_result, breakpoints_list, breakpoints_map,
              breakpoint_count, deet_pc, deet_out>>

\* hangman
VARIABLES
  secret_word_chars,  \* main: secret_word_chars
  count,              \* main: count, the incorrect guesses left
  guessed_word,       \* main: guessed_word, "-" where not revealed
  guessed_word_count, \* main: guessed_word_count
  guessed_word_pos,   \* main: guessed_word_pos, guess -> start position
  have_guessed_word,  \* main: have_guessed_word
  guessed_word_set,   \* main: guessed_word_set, the revealed positions
  hangman_pc          \* main: "idle" | "guess" | "won" | "lost"

hangmanVars == <<secret_word_chars, count, guessed_word, guessed_word_count,
                 guessed_word_pos, have_guessed_word, guessed_word_set,
                 hangman_pc>>

poolVars == <<active_upstream_addresses, hc_pc, hc_idx, hc_ok, hc_before,
              upstream_idx, upstream_ip, attempts>>
connVars == <<max_requests_per_minute, client_ip, clock, now, request_state,
              nreq, last_req, forwarded, last_up, log>>
\* CmdOptions copied into ProxyState, never written after main built it
optionVars == <<active_health_check_path, active_health_check_interval>>

proxyVars == <<poolVars, connVars, pc, sent, optionVars>>

\* the variables of the programs other than balancebeam
otherVars == <<rdiffVars, pmapVars, deetVars, hangmanVars>>

vars == <<proxyVars, otherVars>>

\* No Grid has been built.
NoGrid == [num_rows |-> 0, num_cols |-> 0, elems |-> <<>>]

\* lcs is not being run.
RdiffIdle ==
  /\ seq1 = <<>>
  /\ seq2 = <<>>
  /\ grid = NoGrid
  /\ lcs_pc = "idle"
  /\ lcs_i = 0
  /\ lcs_j = 0

\* parallel_map is not being run.
PmapIdle ==
  /\ input_vec = <<>>
  /\ num_threads = 0
  /\ pm_pc = "idle"
  /\ pm_i = 0
  /\ chan1 = <<>>
  /\ chan2 = <<>>
  /\ worker_pc = <<>>
  /\ worker_num = <<>>
  /\ output_vec = <<>>

\* deet is not being run.
\* Result<Status, nix::Error>: Ok(Stopped(_, _, rip)), Ok(Exited(_)),
\* Ok(Signaled(_)) or Err(_); rip is 0 where the value carries none
Stopped(rip) == [kind |-> "Stopped", rip |-> rip]
Exited == [kind |-> "Exited", rip |-> 0]
Signaled == [kind |-> "Signaled", rip |-> 0]
Err == [kind |-> "Err", rip |-> 0]

DeetIdle ==
  /\ inferior = "None"
  /\ current_result = Exited
  /\ breakpoints_list = <<>>
  /\ breakpoints_map = {}
  /\ breakpoint_count = 0
  /\ deet_pc = "idle"
  /\ deet_out = "none"

\* hangman is not being run.
HangmanIdle ==
  /\ secret_word_chars = <<>>
  /\ count = 0
  /\ guessed_word = <<>>
  /\ guessed_word_count = 0
  /\ guessed_word_pos = <<>>
  /\ have_guessed_word = <<>>
  /\ guessed_word_set = {}
  /\ hangman_pc = "idle"

\* Only balancebeam runs.
OthersIdle == RdiffIdle /\ PmapIdle /\ DeetIdle /\ HangmanIdle

\* The defaults of --active-health-check-interval and
\* --active-health-check-path (lines 26 and 29)
DefaultOptions ==
  /\ active_health_check_path = "/"
  /\ active_health_check_interval = 10

\* ------------------------------------------------------------ helpers
ToSet(s) == {s[i] : i \in 1..Len(s)}

\* Vec::contains
Contains(list, x) == \E i \in 1..Len(list) : list[i] = x

\* Vec::remove(idx), idx 0-based and in range
RemoveAt(list, idx) ==
  [k \in 1..(Len(list) - 1) |-> IF k < idx + 1 THEN list[k] ELSE list[k + 1]]

\* The RwLock: health_check holds the write guard from line 122 to the end of
\* the loop body; every other holder takes and drops it within one step.
LockFree == hc_pc # "probing"

\* ----------------------------------------------------- the Upstream Pool
\* read_upstream_addresses: the (upstream_idx, upstream_ip) pairs gen_range
\* can produce; empty when the Vec is empty (gen_range(0..0) panics).
ReadConfigured(list) ==
  {<<idx, upstream_addresses[idx + 1]>> : idx \in 0..(Len(upstream_addresses) - 1)}

read_upstream_addresses(list) ==
  {<<idx, list[idx + 1]>> : idx \in 0..(Len(list) - 1)}

\* delete_upstream_address: removes whatever is at upstream_idx now
delete_upstream_address(list, idx) ==
  IF idx < Len(list) THEN RemoveAt(list, idx) ELSE list

\* add_upstream_address
AddAlways(list, ip) == Append(list, ip)

add_upstream_address(list, ip) ==
  IF ~Contains(list, ip) THEN Append(list, ip) ELSE list

\* ---------------------------------------------------- the Health Checker
ProbeOutcomes ==
  {"connect_failed", "write_failed", "parse_failed", "non_200", "ok_200"}

KeepOld(list) == list

\* active_upstream_addresses.clear() at the start of a sweep
ClearForSweep(list) == <<>>

PushPeer(list, upstream_addr) == Append(list, PeerIp(upstream_addr))

\* active_upstream_addresses.push(upstream_addr.clone())
PushHealthy(list, upstream_addr) == Append(list, upstream_addr)

\* The sleep ends; the write lock is taken and the Vec cleared.
HCStart ==
  /\ hc_pc = "sleeping"
  /\ hc_pc' = "probing"
  /\ hc_idx' = 1
  /\ hc_ok' = {}
  /\ hc_before' = ToSet(active_upstream_addresses)
  /\ active_upstream_addresses' = ClearForSweep(active_upstream_addresses)
  /\ UNCHANGED <<upstream_idx, upstream_ip, attempts, connVars, pc, sent>>
  /\ UNCHANGED <<optionVars, otherVars>>

\* One iteration of the for loop. After the last address the guard is dropped
\* and the loop sleeps again; a failed write_to_stream returns from
\* health_check, dropping the guard with the Vec as built so far.
HCProbe ==
  /\ hc_pc = "probing"
  /\ \E outcome \in ProbeOutcomes :
       LET addr == upstream_addresses[hc_idx] IN
       IF outcome = "write_failed"
       THEN /\ hc_pc' = "stopped"
            /\ UNCHANGED <<active_upstream_addresses, hc_idx, hc_ok>>
       ELSE /\ active_upstream_addresses' =
                 IF outcome = "ok_200"
                 THEN PushHealthy(active_upstream_addresses, addr)
                 ELSE active_upstream_addresses
            /\ hc_ok' = IF outcome = "ok_200" THEN hc_ok \cup {addr} ELSE hc_ok
            /\ hc_idx' = hc_idx + 1
            /\ hc_pc' = IF hc_idx = Len(upstream_addresses)
                        THEN "sleeping" ELSE "probing"
  /\ UNCHANGED <<hc_before, upstream_idx, upstream_ip, attempts,
                 connVars, pc, sent>>
  /\ UNCHANGED <<optionVars, otherVars>>

\* ------------------------------------- the Selector: connect_to_upstream
\* A local that is never read again (upstream_idx after the demotion, both
\* locals once the task has returned or unwound) is set back to 0; the
\* address of a returned stream stays in upstream_ip.
NoPick == 0

GiveUpOnEmpty(len) == IF len = 0 THEN "failed" ELSE "pick1"

PickAnyway(len) == "pick1"

\* lines 201-206: on an empty Vec sleep and `continue`, else go on to pick
AfterEmptyCheck(len) == IF len = 0 THEN "backoff" ELSE "pick1"

\* line 201: the emptiness check
CheckEmpty(h) ==
  /\ pc[h] = "check_empty"
  /\ LockFree
  /\ pc' = [pc EXCEPT ![h] = AfterEmptyCheck(Len(active_upstream_addresses))]
  /\ UNCHANGED <<poolVars, connVars, sent>>
  /\ UNCHANGED <<optionVars, otherVars>>

\* lines 203-204: sleep 3 s, continue
Backoff(h) ==
  /\ pc[h] = "backoff"
  /\ pc' = [pc EXCEPT ![h] = "check_empty"]
  /\ UNCHANGED <<poolVars, connVars, sent>>
  /\ UNCHANGED <<optionVars, otherVars>>

\* line 206: the first pick; gen_range panics on an empty Vec
Pick1(h) ==
  /\ pc[h] = "pick1"
  /\ LockFree
  /\ IF read_upstream_addresses(active_upstream_addresses) = {}
     THEN /\ pc' = [pc EXCEPT ![h] = "panicked"]
          /\ UNCHANGED <<upstream_idx, upstream_ip>>
     ELSE \E p \in read_upstream_addresses(active_upstream_addresses) :
            /\ upstream_idx' = [upstream_idx EXCEPT ![h] = p[1]]
            /\ upstream_ip' = [upstream_ip EXCEPT ![h] = p[2]]
            /\ pc' = [pc EXCEPT ![h] = "connect1"]
  /\ UNCHANGED <<active_upstream_addresses, hc_pc, hc_idx, hc_ok, hc_before,
                 attempts, connVars, sent>>
  /\ UNCHANGED <<optionVars, otherVars>>

\* lines 209-212: the first TcpStream::connect
Connect1(h) ==
  /\ pc[h] = "connect1"
  /\ attempts' = [attempts EXCEPT ![h] = @ + 1]
  /\ \E ok \in BOOLEAN :
       /\ pc' = [pc EXCEPT ![h] = IF ok THEN "connected" ELSE "delete"]
       /\ upstream_idx' = [upstream_idx EXCEPT ![h] = IF ok THEN NoPick ELSE @]
  /\ UNCHANGED <<active_upstream_addresses, hc_pc, hc_idx, hc_ok, hc_before,
                 upstream_ip, connVars, sent>>
  /\ UNCHANGED <<optionVars, otherVars>>

\* line 213: the demotion
Delete(h) ==
  /\ pc[h] = "delete"
  /\ LockFree
  /\ active_upstream_addresses' =
       delete_upstream_address(active_upstream_addresses, upstream_idx[h])
  /\ upstream_idx' = [upstream_idx EXCEPT ![h] = NoPick]
  /\ pc' = [pc EXCEPT ![h] = "pick2"]
  /\ UNCHANGED <<hc_pc, hc_idx, hc_ok, hc_before, upstream_ip, attempts,
                 connVars, sent>>
  /\ UNCHANGED <<optionVars, otherVars>>

\* line 215: the second pick; only upstream_ip is assigned
Pick2(h) ==
  /\ pc[h] = "pick2"
  /\ LockFree
  /\ IF read_upstream_addresses(active_upstream_addresses) = {}
     THEN /\ pc' = [pc EXCEPT ![h] = "panicked"]
          /\ upstream_ip' = [upstream_ip EXCEPT ![h] = NoPick]
     ELSE \E p \in read_upstream_addresses(active_upstream_addresses) :
            /\ upstream_ip' = [upstream_ip EXCEPT ![h] = p[2]]
            /\ pc' = [pc EXCEPT ![h] = "add"]
  /\ UNCHANGED <<active_upstream_addresses, hc_pc, hc_idx, hc_ok, hc_before,
                 upstream_idx, attempts, connVars, sent>>
  /\ UNCHANGED <<optionVars, otherVars>>

\* line 217: the defensive re-add
Add(h) ==
  /\ pc[h] = "add"
  /\ LockFree
  /\ active_upstream_addresses' =
       add_upstream_address(active_upstream_addresses, upstream_ip[h])
  /\ pc' = [pc EXCEPT ![h] = "connect2"]
  /\ UNCHANGED <<hc_pc, hc_idx, hc_ok, hc_before, upstream_idx, upstream_ip,
                 attempts, connVars, sent>>
  /\ UNCHANGED <<optionVars, otherVars>>

\* line 218: the second TcpStream::connect; `?` returns the error, and
\* handle_connection (lines 248-255) answers 502 and returns.
Connect2(h) ==
  /\ pc[h] = "connect2"
  /\ attempts' = [attempts EXCEPT ![h] = @ + 1]
  /\ \E ok \in BOOLEAN :
       IF ok
       THEN /\ pc' = [pc EXCEPT ![h] = "connected"]
            /\ UNCHANGED <<sent, upstream_ip>>
       ELSE /\ pc' = [pc EXCEPT ![h] = "failed"]
            /\ upstream_ip' = [upstream_ip EXCEPT ![h] = NoPick]
            /\ sent' = [sent EXCEPT ![h] = Append(@, 502)]
  /\ UNCHANGED <<active_upstream_addresses, hc_pc, hc_idx, hc_ok, hc_before,
                 upstream_idx, connVars>>
  /\ UNCHANGED <<optionVars, otherVars>>

\* ------------------------------------------------------------ SpecPool
ConnInit ==
  /\ max_requests_per_minute = 0
  /\ client_ip = [h \in Handlers |-> 1]
  /\ clock = 0
  /\ now = [h \in Handlers |-> 0]
  /\ request_state = [ip \in {} |-> <<>>]
  /\ nreq = [h \in Handlers |-> 0]
  /\ last_req = [h \in Handlers |-> "none"]
  /\ forwarded = [h \in Handlers |-> 0]
  /\ last_up = [h \in Handlers |-> "none"]
  /\ log = <<>>

\* main, lines 85-111: the Vec starts empty, the health checker is spawned
\* and each accepted connection starts handle_connection.
ProxyInit ==
  /\ active_upstream_addresses = <<>>
  /\ hc_pc = "sleeping"
  /\ hc_idx = 1
  /\ hc_ok = {}
  /\ hc_before = {}
  /\ pc = [h \in Handlers |-> "check_empty"]
  /\ upstream_idx = [h \in Handlers |-> NoPick]
  /\ upstream_ip = [h \in Handlers |-> NoPick]
  /\ attempts = [h \in Handlers |-> 0]
  /\ sent = [h \in Handlers |-> <<>>]
  /\ ConnInit
  /\ DefaultOptions

InitPool == ProxyInit /\ OthersIdle

health_check == HCStart \/ HCProbe

connect_to_upstream ==
  \E h \in Handlers :
    \/ CheckEmpty(h)
    \/ Backoff(h)
    \/ Pick1(h)
    \/ Connect1(h)
    \/ Delete(h)
    \/ Pick2(h)
    \/ Add(h)
    \/ Connect2(h)

NextPool == health_check \/ connect_to_upstream

SpecPool == InitPool /\ [][NextPool]_vars

\* ------------------------------------------------------ the Rate Limiter
ClientIPs == {"10.0.0.1", "10.0.0.2"}

\* The --max-requests-per-minute values tried
RateLimits == {0, 1, 2}

\* Seconds that may pass between two reads of the monotonic clock
Deltas == {0, 1, 60, 61}

\* Instant::now(): the clock never goes back
InstantNow(c) == {c + d : d \in Deltas}

AlwaysEnabled(max) == TRUE

\* line 296: state.max_requests_per_minute != 0
RateLimitEnabled(max) == max # 0

DurationSinceSwapped(t, ts) == IF ts >= t THEN ts - t ELSE 0

\* Instant::duration_since(t, ts): t - ts, zero when ts is later than t
DurationSince(t, ts) == IF t >= ts THEN t - ts ELSE 0

\* lines 302-308: pop the front while it is more than 60 s older than now
RECURSIVE Prune(_, _)
Prune(entry, t) ==
  IF entry # <<>> /\ DurationSince(t, Head(entry)) > Window
  THEN Prune(Tail(entry), t)
  ELSE entry

RejectAbove(len, max) == len > max

\* line 310: entry.len() >= state.max_requests_per_minute
ShouldReject(len, max) == len >= max

\* line 300: stats.entry(client_ip).or_insert_with(VecDeque::new)
EntryOrInsert(stats, ip) ==
  IF ip \in DOMAIN stats THEN stats ELSE stats @@ (ip :> <<>>)

\* -------------------------------- the Connection Handler: the request loop
\* The client connections of SpecConn: two, from one client IP or from two
Conns == {1, 2}

\* What request::read_from_stream returns: a request, IncompleteRequest(0),
\* ConnectionError, or one of the other request::Error kinds.
ClientClosed == {"eof", "conn_error"}
ParseErrors == {"incomplete", "malformed", "invalid_content_length",
                "content_length_mismatch", "body_too_large"}
ReadOutcomes == {"valid"} \cup ClientClosed \cup ParseErrors

AlwaysBadRequest(error) == 400

\* lines 277-284: the status answered to a request that did not parse
ErrorStatus(error) == IF error = "body_too_large" THEN 413 ELSE 400

FallThrough(should_reject) == "forward"

\* lines 323-327: `continue` on a rejection, else go on to forward
AfterRateLimit(should_reject) ==
  IF should_reject THEN "read_request" ELSE "forward"

RECURSIVE Sum(_, _)
Sum(f, S) ==
  IF S = {} THEN 0
  ELSE LET x == CHOOSE y \in S : TRUE IN f[x] + Sum(f, S \ {x})

\* lines 263-288, and line 297 for a request that parsed
ReadRequest(h) ==
  /\ pc[h] = "read_request"
  /\ Sum(nreq, DOMAIN nreq) < MaxReq
  /\ nreq' = [nreq EXCEPT ![h] = @ + 1]
  /\ \E r \in ReadOutcomes :
       /\ last_req' = [last_req EXCEPT ![h] = r]
       /\ IF r \in ClientClosed
          THEN /\ pc' = [pc EXCEPT ![h] = "done"]
               /\ UNCHANGED <<sent, clock, now>>
          ELSE IF r \in ParseErrors
          THEN /\ sent' = [sent EXCEPT ![h] = Append(@, ErrorStatus(r))]
               /\ UNCHANGED <<pc, clock, now>>
          ELSE IF RateLimitEnabled(max_requests_per_minute)
          THEN /\ \E t \in InstantNow(clock) :
                    /\ clock' = t
                    /\ now' = [now EXCEPT ![h] = t]
               /\ pc' = [pc EXCEPT ![h] = "rate_lock"]
               /\ UNCHANGED sent
          ELSE /\ pc' = [pc EXCEPT ![h] = "forward"]
               /\ UNCHANGED <<sent, clock, now>>
  /\ UNCHANGED <<poolVars, max_requests_per_minute, client_ip, request_state,
                 forwarded, last_up, log>>
  /\ UNCHANGED <<optionVars, otherVars>>

RecordAlways(entry, t, should_reject) == Append(entry, t)

\* lines 310-320: entry.push_back(now) only when the request is not rejected
Recorded(entry, t, should_reject) ==
  IF should_reject THEN entry ELSE Append(entry, t)

\* lines 298-327: under the Mutex, prune, decide, record; 429 on a rejection
RateLimit(h) ==
  /\ pc[h] = "rate_lock"
  /\ LET ip == client_ip[h]
         stats == EntryOrInsert(request_state, ip)
         entry == Prune(stats[ip], now[h])
         should_reject == ShouldReject(Len(entry), max_requests_per_minute)
     IN /\ request_state' =
             [stats EXCEPT ![ip] = Recorded(entry, now[h], should_reject)]
        /\ log' = Append(log, [ip |-> ip, now |-> now[h], kept |-> Len(entry),
                               admitted |-> ~should_reject])
        /\ sent' = [sent EXCEPT ![h] =
                      IF should_reject THEN Append(@, 429) ELSE @]
        /\ pc' = [pc EXCEPT ![h] = AfterRateLimit(should_reject)]
  /\ UNCHANGED <<poolVars, max_requests_per_minute, client_ip, clock, now,
                 nreq, last_req, forwarded, last_up>>
  /\ UNCHANGED <<optionVars, otherVars>>

UpstreamOutcomes == {"ok", "write_failed", "read_failed"}

KeepServing(o) == "read_request"

Reselect(o) == IF o = "ok" THEN "read_request" ELSE "check_empty"

\* lines 344 and 356: `return` when the upstream write or read failed, else
\* the loop goes round
AfterForward(o) == IF o = "ok" THEN "read_request" ELSE "done"

\* lines 333-361: write the request to the upstream, read its response and
\* relay it (recorded as 200); 502 and return when either step fails
Forward(h) ==
  /\ pc[h] = "forward"
  /\ \E o \in UpstreamOutcomes :
       /\ forwarded' = [forwarded EXCEPT ![h] =
                          IF o = "write_failed" THEN @ ELSE @ + 1]
       /\ sent' = [sent EXCEPT ![h] = Append(@, IF o = "ok" THEN 200 ELSE 502)]
       /\ last_up' = [last_up EXCEPT ![h] = o]
       /\ pc' = [pc EXCEPT ![h] = AfterForward(o)]
  /\ UNCHANGED <<poolVars, max_requests_per_minute, client_ip, clock, now,
                 request_state, nreq, last_req, log>>
  /\ UNCHANGED <<optionVars, otherVars>>

\* ------------------------------------------------------------ SpecConn
\* Each handler has returned from connect_to_upstream with a stream (line
\* 257) and is about to read its first request; nothing has been recorded
\* in request_state (line 91). The first connection's IP is fixed, the
\* second shares it or not.
InitConn ==
  /\ active_upstream_addresses = upstream_addresses
  /\ hc_pc = "sleeping"
  /\ hc_idx = Len(upstream_addresses) + 1
  /\ hc_ok = ToSet(upstream_addresses)
  /\ hc_before = {}
  /\ pc = [h \in Conns |-> "read_request"]
  /\ upstream_idx = [h \in Conns |-> NoPick]
  /\ upstream_ip = [h \in Conns |-> upstream_addresses[1]]
  /\ attempts = [h \in Conns |-> 1]
  /\ sent = [h \in Conns |-> <<>>]
  /\ max_requests_per_minute \in RateLimits
  /\ client_ip \in {f \in [Conns -> ClientIPs] : f[1] = "10.0.0.1"}
  /\ clock = 0
  /\ now = [h \in Conns |-> 0]
  /\ request_state = [ip \in {} |-> <<>>]
  /\ nreq = [h \in Conns |-> 0]
  /\ last_req = [h \in Conns |-> "none"]
  /\ forwarded = [h \in Conns |-> 0]
  /\ last_up = [h \in Conns |-> "none"]
  /\ log = <<>>
  /\ DefaultOptions
  /\ OthersIdle

handle_connection ==
  \E h \in Conns :
    \/ ReadRequest(h)
    \/ RateLimit(h)
    \/ Forward(h)

NextConn == handle_connection

SpecConn == InitConn /\ [][NextConn]_vars

\* -------------------------------------------------------- SpecConnBusy
\* As InitConn, on a client that is not new: the limit is 2, both
\* connections come from one IP, and two earlier connections of that IP,
\* closed since, each had a request admitted at time 0.
InitConnBusy ==
  /\ active_upstream_addresses = upstream_addresses
  /\ hc_pc = "sleeping"
  /\ hc_idx = Len(upstream_addresses) + 1
  /\ hc_ok = ToSet(upstream_addresses)
  /\ hc_before = {}
  /\ pc = [h \in Conns |-> "read_request"]
  /\ upstream_idx = [h \in Conns |-> NoPick]
  /\ upstream_ip = [h \in Conns |-> upstream_addresses[1]]
  /\ attempts = [h \in Conns |-> 1]
  /\ sent = [h \in Conns |-> <<>>]
  /\ max_requests_per_minute = 2
  /\ client_ip = [h \in Conns |-> "10.0.0.1"]
  /\ clock = 0
  /\ now = [h \in Conns |-> 0]
  /\ request_state = [ip \in {"10.0.0.1"} |-> <<0, 0>>]
  /\ nreq = [h \in Conns |-> 0]
  /\ last_req = [h \in Conns |-> "none"]
  /\ forwarded = [h \in Conns |-> 0]
  /\ last_up = [h \in Conns |-> "none"]
  /\ log = <<[ip |-> "10.0.0.1", now |-> 0, kept |-> 0, admitted |-> TRUE],
             [ip |-> "10.0.0.1", now |-> 0, kept |-> 1, admitted |-> TRUE]>>
  /\ DefaultOptions
  /\ OthersIdle

SpecConnBusy == InitConnBusy /\ [][NextConn]_vars

\* ------------------------------------------------------------ SpecFull
\* The one client connection of SpecFull
Solo == {1}

\* line 257: connect_to_upstream has returned a stream; the request loop
\* begins
EnterLoop(h) ==
  /\ pc[h] = "connected"
  /\ pc' = [pc EXCEPT ![h] = "read_request"]
  /\ UNCHANGED <<poolVars, connVars, sent>>
  /\ UNCHANGED <<optionVars, otherVars>>

\* main, lines 85-111, with one accepted connection
InitFull ==
  /\ active_upstream_addresses = <<>>
  /\ hc_pc = "sleeping"
  /\ hc_idx = 1
  /\ hc_ok = {}
  /\ hc_before = {}
  /\ pc = [h \in Solo |-> "check_empty"]
  /\ upstream_idx = [h \in Solo |-> NoPick]
  /\ upstream_ip = [h \in Solo |-> NoPick]
  /\ attempts = [h \in Solo |-> 0]
  /\ sent = [h \in Solo |-> <<>>]
  /\ max_requests_per_minute \in {0, 1}
  /\ client_ip = [h \in Solo |-> "10.0.0.1"]
  /\ clock = 0
  /\ now = [h \in Solo |-> 0]
  /\ request_state = [ip \in {} |-> <<>>]
  /\ nreq = [h \in Solo |-> 0]
  /\ last_req = [h \in Solo |-> "none"]
  /\ forwarded = [h \in Solo |-> 0]
  /\ last_up = [h \in Solo |-> "none"]
  /\ log = <<>>
  /\ DefaultOptions
  /\ OthersIdle

handle_connection_full ==
  \E h \in Solo :
    \/ CheckEmpty(h)
    \/ Backoff(h)
    \/ Pick1(h)
    \/ Connect1(h)
    \/ Delete(h)
    \/ Pick2(h)
    \/ Add(h)
    \/ Connect2(h)
    \/ EnterLoop(h)
    \/ ReadRequest(h)
    \/ RateLimit(h)
    \/ Forward(h)

NextFull == health_check \/ handle_connection_full

SpecFull == InitFull /\ [][NextFull]_vars

\* ------------------------------------------------------ SpecAcquireFair
\* One task inside connect_to_upstream.
Acquire(h) ==
  \/ CheckEmpty(h)
  \/ Backoff(h)
  \/ Pick1(h)
  \/ Connect1(h)
  \/ Delete(h)
  \/ Pick2(h)
  \/ Add(h)
  \/ Connect2(h)

NextAcquire == health_check \/ \E h \in Solo : Acquire(h)

\* The tokio runtime polls every spawned task that can run: neither the
\* health checker nor a handler is left waiting forever while it could step.
SpecAcquireFair ==
  /\ InitFull
  /\ [][NextAcquire]_vars
  /\ WF_vars(health_check)
  /\ \A h \in Solo : WF_vars(Acquire(h))

\* ------------------------------------------------------------ SpecMain
\* The --active-health-check-path values tried
HealthCheckPaths == {"", "/"}

\* The --active-health-check-interval values tried
HealthCheckIntervals == {0, 10}

SpawnAlways(path) == "sleeping"

\* lines 94-104: the health checker is spawned unless the path is empty
SpawnHealthCheck(path) == IF path # "" THEN "sleeping" ELSE "not_spawned"

\* main, lines 67-111, for any health-check options: the Vec starts empty,
\* the health checker is spawned or not, two connections are accepted.
InitMain ==
  /\ active_health_check_path \in HealthCheckPaths
  /\ active_health_check_interval \in HealthCheckIntervals
  /\ active_upstream_addresses = <<>>
  /\ hc_pc = SpawnHealthCheck(active_health_check_path)
  /\ hc_idx = 1
  /\ hc_ok = {}
  /\ hc_before = {}
  /\ pc = [h \in Conns |-> "check_empty"]
  /\ upstream_idx = [h \in Conns |-> NoPick]
  /\ upstream_ip = [h \in Conns |-> NoPick]
  /\ attempts = [h \in Conns |-> 0]
  /\ sent = [h \in Conns |-> <<>>]
  /\ max_requests_per_minute = 0
  /\ client_ip = [h \in Conns |-> "10.0.0.1"]
  /\ clock = 0
  /\ now = [h \in Conns |-> 0]
  /\ request_state = [ip \in {} |-> <<>>]
  /\ nreq = [h \in Conns |-> 0]
  /\ last_req = [h \in Conns |-> "none"]
  /\ forwarded = [h \in Conns |-> 0]
  /\ last_up = [h \in Conns |-> "none"]
  /\ log = <<>>
  /\ OthersIdle

NextMain == health_check \/ \E h \in Conns : Acquire(h)

SpecMain == InitMain /\ [][NextMain]_vars

\* ======================================================= Part 2: rdiff
\* One line of a file, as lcs compares it.
Lines == {"a", "b", "c"}

\* The sequences handed to lcs.
Seqs == UNION {[1..n -> Lines] : n \in 0..MaxLen}

\* --------------------------------------------------------------- Grid
\* Grid::new(num_rows, num_cols): every cell 0
GridNew(num_rows, num_cols) ==
  [num_rows |-> num_rows, num_cols |-> num_cols,
   elems |-> [p \in (0..(num_rows - 1)) \X (0..(num_cols - 1)) |-> 0]]

InGrid(g, row, col) ==
  row \in 0..(g.num_rows - 1) /\ col \in 0..(g.num_cols - 1)

\* Grid::get: an Option, here the set of its values
GridGet(g, row, col) ==
  IF InGrid(g, row, col) THEN {g.elems[<<row, col>>]} ELSE {}

\* Grid::set: Err, and no change, outside the grid
GridSet(g, row, col, val) ==
  IF InGrid(g, row, col) THEN [g EXCEPT !.elems[<<row, col>>] = val] ELSE g

\* Grid::size
GridSize(g) == <<g.num_rows, g.num_cols>>

\* Option::unwrap on Some
Unwrap(o) == CHOOSE v \in o : TRUE

\* std::cmp::max
max(a, b) == IF a >= b THEN a ELSE b

\* ---------------------------------------------------------------- lcs
\* lines 34-36: for i in 0..seq1_len + 1 { grid.set(i, 0, 0) }
RECURSIVE ZeroColumn(_, _, _)
ZeroColumn(g, i, n) ==
  IF i >= n THEN g ELSE ZeroColumn(GridSet(g, i, 0, 0), i + 1, n)

\* lines 37-39: for j in 0..seq2_len + 1 { grid.set(0, j, 0) }
RECURSIVE ZeroRow(_, _, _)
ZeroRow(g, j, n) ==
  IF j >= n THEN g ELSE ZeroRow(GridSet(g, 0, j, 0), j + 1, n)

\* The cells one pass of the loop body reads with get(..).unwrap().
CellReads(g, s1, s2, i, j) ==
  IF s1[i + 1] = s2[j + 1]
  THEN {GridGet(g, i, j)}
  ELSE {GridGet(g, i + 1, j), GridGet(g, i, j + 1)}

FillCellLeftOnly(g, s1, s2, i, j) ==
  IF s1[i + 1] = s2[j + 1]
  THEN GridSet(g, i + 1, j + 1, Unwrap(GridGet(g, i, j)) + 1)
  ELSE GridSet(g, i + 1, j + 1, Unwrap(GridGet(g, i + 1, j)))

\* lines 43-49: the body of the inner loop
FillCell(g, s1, s2, i, j) ==
  IF s1[i + 1] = s2[j + 1]
  THEN GridSet(g, i + 1, j + 1, Unwrap(GridGet(g, i, j)) + 1)
  ELSE GridSet(g, i + 1, j + 1,
               max(Unwrap(GridGet(g, i + 1, j)), Unwrap(GridGet(g, i, j + 1))))

\* lines 31-39: the grid is built and its first column and row are set to 0;
\* with an empty sequence the fill loops have no pass and the grid is returned
LcsStart ==
  /\ lcs_pc = "start"
  /\ grid' = ZeroRow(ZeroColumn(GridNew(Len(seq1) + 1, Len(seq2) + 1),
                                0, Len(seq1) + 1),
                     0, Len(seq2) + 1)
  /\ lcs_i' = 0
  /\ lcs_j' = 0
  /\ lcs_pc' = IF Len(seq1) = 0 \/ Len(seq2) = 0 THEN "done" ELSE "fill"
  /\ UNCHANGED <<seq1, seq2, proxyVars, pmapVars, deetVars, hangmanVars>>

\* lines 41-51: one pass of the inner loop; unwrap() of None panics; after
\* the last pass the grid is returned
LcsFill ==
  /\ lcs_pc = "fill"
  /\ IF {} \in CellReads(grid, seq1, seq2, lcs_i, lcs_j)
     THEN /\ lcs_pc' = "panicked"
          /\ UNCHANGED <<grid, lcs_i, lcs_j>>
     ELSE /\ grid' = FillCell(grid, seq1, seq2, lcs_i, lcs_j)
          /\ IF lcs_j + 1 < Len(seq2)
             THEN /\ lcs_j' = lcs_j + 1
                  /\ UNCHANGED <<lcs_i, lcs_pc>>
             ELSE IF lcs_i + 1 < Len(seq1)
             THEN /\ lcs_i' = lcs_i + 1
                  /\ lcs_j' = 0
                  /\ UNCHANGED lcs_pc
             ELSE /\ lcs_i' = 0
                  /\ lcs_j' = 0
                  /\ lcs_pc' = "done"
  /\ UNCHANGED <<seq1, seq2, proxyVars, pmapVars, deetVars, hangmanVars>>

\* ------------------------------------------------------------- SpecLcs
\* lcs is called on some pair of sequences; the proxy is not running.
InitLcs ==
  /\ ProxyInit
  /\ PmapIdle
  /\ DeetIdle
  /\ HangmanIdle
  /\ seq1 \in Seqs
  /\ seq2 \in Seqs
  /\ grid = NoGrid
  /\ lcs_pc = "start"
  /\ lcs_i = 0
  /\ lcs_j = 0

lcs == LcsStart \/ LcsFill

NextLcs == lcs

SpecLcs == InitLcs /\ [][NextLcs]_vars

\* ================================================ Part 3: parallel_map
\* What parallel_map never touches.
notPmapVars == <<proxyVars, rdiffVars, deetVars, hangmanVars>>

\* The elements of input_vec.
Items == {1, 2}

\* The vectors handed to parallel_map.
Inputs == UNION {[1..n -> Items] : n \in 0..MaxItems}

\* main, lines 48-52: the closure handed to parallel_map
f(x) == x * x

\* No value is held in `num`.
NoNum == 0

\* Every clone of tx2 is dropped: main's (line 33) and each thread's
\* `sender`, when its closure returns.
Chan2Disconnected == \A w \in DOMAIN worker_pc : worker_pc[w] = "exited"

\* lines 15-18: one pass of the for loop, tx1.send(f(val))
PmSend ==
  /\ pm_pc = "send"
  /\ pm_i < Len(input_vec)
  /\ chan1' = Append(chan1, f(input_vec[pm_i + 1]))
  /\ pm_i' = pm_i + 1
  /\ UNCHANGED <<input_vec, num_threads, pm_pc, chan2, worker_pc, worker_num,
                 output_vec>>
  /\ UNCHANGED notPmapVars

\* line 20: the for loop is over, drop(tx1)
PmDropTx1 ==
  /\ pm_pc = "send"
  /\ pm_i = Len(input_vec)
  /\ pm_pc' = "spawn"
  /\ UNCHANGED <<input_vec, num_threads, pm_i, chan1, chan2, worker_pc,
                 worker_num, output_vec>>
  /\ UNCHANGED notPmapVars

\* lines 23-31: one pass of the spawn loop
PmSpawn ==
  /\ pm_pc = "spawn"
  /\ Len(worker_pc) < num_threads
  /\ worker_pc' = Append(worker_pc, "recv")
  /\ worker_num' = Append(worker_num, NoNum)
  /\ UNCHANGED <<input_vec, num_threads, pm_pc, pm_i, chan1, chan2,
                 output_vec>>
  /\ UNCHANGED notPmapVars

\* line 33: the spawn loop is over, drop(tx2)
PmDropTx2 ==
  /\ pm_pc = "spawn"
  /\ Len(worker_pc) = num_threads
  /\ pm_pc' = "collect"
  /\ UNCHANGED <<input_vec, num_threads, pm_i, chan1, chan2, worker_pc,
                 worker_num, output_vec>>
  /\ UNCHANGED notPmapVars

\* line 27: recv.recv() in a thread; tx1 was dropped before any thread was
\* spawned, so on an empty queue recv returns Err and the closure returns
WorkerRecv(w) ==
  /\ worker_pc[w] = "recv"
  /\ IF chan1 # <<>>
     THEN /\ worker_num' = [worker_num EXCEPT ![w] = Head(chan1)]
          /\ chan1' = Tail(chan1)
          /\ worker_pc' = [worker_pc EXCEPT ![w] = "send"]
     ELSE /\ worker_pc' = [worker_pc EXCEPT ![w] = "exited"]
          /\ UNCHANGED <<worker_num, chan1>>
  /\ UNCHANGED <<input_vec, num_threads, pm_pc, pm_i, chan2, output_vec>>
  /\ UNCHANGED notPmapVars

\* line 28: sender.send(num) in a thread
WorkerSend(w) ==
  /\ worker_pc[w] = "send"
  /\ chan2' = Append(chan2, worker_num[w])
  /\ worker_num' = [worker_num EXCEPT ![w] = NoNum]
  /\ worker_pc' = [worker_pc EXCEPT ![w] = "recv"]
  /\ UNCHANGED <<input_vec, num_threads, pm_pc, pm_i, chan1, output_vec>>
  /\ UNCHANGED notPmapVars

\* lines 35-37: rx2.recv() blocks on an empty queue while a sender lives,
\* returns Err once the channel is empty and disconnected
PmCollect ==
  /\ pm_pc = "collect"
  /\ IF chan2 # <<>>
     THEN /\ output_vec' = Append(output_vec, Head(chan2))
          /\ chan2' = Tail(chan2)
          /\ UNCHANGED pm_pc
     ELSE /\ Chan2Disconnected
          /\ pm_pc' = "join"
          /\ UNCHANGED <<output_vec, chan2>>
  /\ UNCHANGED <<input_vec, num_threads, pm_i, chan1, worker_pc, worker_num>>
  /\ UNCHANGED notPmapVars

\* lines 39-43: every thread is joined, output_vec is returned
PmJoin ==
  /\ pm_pc = "join"
  /\ \A w \in DOMAIN worker_pc : worker_pc[w] = "exited"
  /\ pm_pc' = "done"
  /\ UNCHANGED <<input_vec, num_threads, pm_i, chan1, chan2, worker_pc,
                 worker_num, output_vec>>
  /\ UNCHANGED notPmapVars

\* ------------------------------------------------------ SpecParallelMap
\* parallel_map is called on some vector with some number of threads.
InitParallelMap ==
  /\ ProxyInit
  /\ RdiffIdle
  /\ DeetIdle
  /\ HangmanIdle
  /\ input_vec \in Inputs
  /\ num_threads \in 0..MaxThreads
  /\ pm_pc = "send"
  /\ pm_i = 0
  /\ chan1 = <<>>
  /\ chan2 = <<>>
  /\ worker_pc = <<>>
  /\ worker_num = <<>>
  /\ output_vec = <<>>

NextParallelMap ==
  \/ PmSend
  \/ PmDropTx1
  \/ PmSpawn
  \/ PmDropTx2
  \/ PmCollect
  \/ PmJoin
  \/ \E w \in DOMAIN worker_pc : WorkerRecv(w)
  \/ \E w \in DOMAIN worker_pc : WorkerSend(w)

SpecParallelMap == InitParallelMap /\ [][NextParallelMap]_vars

\* ======================================================= Part 4: deet
\* What the debugger never touches.
notDeetVars == <<proxyVars, rdiffVars, pmapVars, hangmanVars>>

\* The addresses a break command resolves to.
Addrs == {1, 2}

\* An instruction pointer one past an address that never holds a
\* breakpoint: the inferior was stopped by a signal of its own.
OtherRip == 10

\* Inferior::new: Some(inferior) or None
InferiorNew == {"Some", "None"}

\* Inferior::write_byte: Ok(orig_byte) or Err
WriteByte == {"Ok", "Err"}

\* Inferior::continue_run(None): the inferior stops on an installed
\* breakpoint (rip one past it) or elsewhere, exits, is killed by a signal,
\* or ptrace fails
ContinueRun(installed) ==
  {Stopped(a + 1) : a \in installed} \cup {Stopped(OtherRip), Exited, Signaled, Err}

\* deal_status, lines 74-98: what is printed for a result
deal_status(result) ==
  CASE result.kind = "Stopped" -> "Child stopped"
    [] result.kind = "Exited" -> "Child exited (status 0)"
    [] result.kind = "Signaled" -> "Child Signaled"
    [] OTHER -> "err"

\* lines 52-62: the state Debugger::new returns, run about to read a command
DebuggerNew ==
  /\ inferior = "None"
  /\ current_result = Exited
  /\ breakpoints_list = <<>>
  /\ breakpoints_map = {}
  /\ breakpoint_count = 0
  /\ deet_pc = "prompt"
  /\ deet_out = "none"

\* lines 117-141: DebuggerCommand::Run
Run ==
  /\ deet_pc = "prompt"
  /\ \E new \in InferiorNew :
       IF new = "Some"
       THEN /\ inferior' = "Some"
            /\ \E written \in WriteByte :
                 IF breakpoints_list # <<>> /\ written = "Err"
                 THEN \* set_breakpoint returned None: expect panics
                      /\ deet_pc' = "panicked"
                      /\ deet_out' = "set breakpoint failed!"
                      /\ UNCHANGED <<current_result, breakpoints_map>>
                 ELSE /\ breakpoints_map' =
                           breakpoints_map \cup
                             {breakpoints_list[n] : n \in DOMAIN breakpoints_list}
                      /\ \E result \in ContinueRun(breakpoints_map') :
                           /\ current_result' = result
                           /\ deet_out' = deal_status(result)
                      /\ UNCHANGED deet_pc
       ELSE /\ inferior' = "None"
            /\ deet_out' = "Error starting subprocess"
            /\ UNCHANGED <<current_result, breakpoints_map, deet_pc>>
  /\ UNCHANGED <<breakpoints_list, breakpoint_count>>
  /\ UNCHANGED notDeetVars

\* lines 143-175: DebuggerCommand::Continue. The test of line 144 prints and
\* falls through; breakpoints_map[&stopped_rip] (line 155) panics on a
\* missing key, inferior.as_mut().unwrap() (lines 157-173) on None.
Continue ==
  /\ deet_pc = "prompt"
  /\ IF inferior = "None"
     THEN /\ deet_pc' = "panicked"
          /\ deet_out' = "Error no subprocess is running!"
          /\ UNCHANGED current_result
     ELSE IF /\ current_result.kind = "Stopped"
             /\ current_result.rip - 1 \notin breakpoints_map
          THEN /\ deet_pc' = "panicked"
               /\ deet_out' = "none"
               /\ UNCHANGED current_result
          ELSE \E result \in ContinueRun(breakpoints_map) :
                 /\ current_result' = result
                 /\ deet_out' = deal_status(result)
                 /\ UNCHANGED deet_pc
  /\ UNCHANGED <<inferior, breakpoints_list, breakpoints_map,
                 breakpoint_count>>
  /\ UNCHANGED notDeetVars

\* lines 177-183: DebuggerCommand::Backtrace
Backtrace ==
  /\ deet_pc = "prompt"
  /\ IF inferior = "None"
     THEN deet_pc' = "panicked" /\ deet_out' = "none"
     ELSE deet_out' = "backtrace" /\ UNCHANGED deet_pc
  /\ UNCHANGED <<inferior, current_result, breakpoints_list, breakpoints_map,
                 breakpoint_count>>
  /\ UNCHANGED notDeetVars

\* lines 185-221: DebuggerCommand::BreakPoint with an argument that
\* resolves to addr
BreakPoint(addr) ==
  /\ deet_pc = "prompt"
  /\ breakpoint_count < MaxBreakpoints
  /\ breakpoints_list' = Append(breakpoints_list, addr)
  /\ \E written \in WriteByte :
       IF inferior = "Some" /\ written = "Err"
       THEN /\ deet_pc' = "panicked"
            /\ deet_out' = "set_breakpoint failed!"
            /\ UNCHANGED <<breakpoints_map, breakpoint_count>>
       ELSE /\ breakpoints_map' =
                 IF inferior = "Some" THEN breakpoints_map \cup {addr}
                                      ELSE breakpoints_map
            /\ breakpoint_count' = breakpoint_count + 1
            /\ deet_out' = "Set breakpoint"
            /\ UNCHANGED deet_pc
  /\ UNCHANGED <<inferior, current_result>>
  /\ UNCHANGED notDeetVars

\* lines 223-228: DebuggerCommand::Quit
Quit ==
  /\ deet_pc = "prompt"
  /\ inferior' = "None"
  /\ deet_pc' = "returned"
  /\ deet_out' = "none"
  /\ UNCHANGED <<current_result, breakpoints_list, breakpoints_map,
                 breakpoint_count>>
  /\ UNCHANGED notDeetVars

\* ------------------------------------------------------------- SpecDeet
\* Debugger::new(target).run() reading any sequence of commands.
InitDeet ==
  /\ ProxyInit
  /\ RdiffIdle
  /\ PmapIdle
  /\ HangmanIdle
  /\ DebuggerNew

NextDeet ==
  \/ Run
  \/ Continue
  \/ Backtrace
  \/ \E addr \in Addrs : BreakPoint(addr)
  \/ Quit

SpecDeet == InitDeet /\ [][NextDeet]_vars

\* ==================================================== Part 5: hangman
\* What hangman never touches.
notHangmanVars == <<proxyVars, rdiffVars, pmapVars, deetVars>>

\* line 23
NUM_INCORRECT_GUESSES == 5

\* The letters of the secret words, and the letters a player types.
WordLetters == {"a", "b"}
GuessLetters == {"a", "b", "c"}

\* The words pick_a_random_word can return.
Words == UNION {[1..n -> WordLetters] : n \in 1..MaxWordLen}

\* Option<usize>::None; positions are counted from 1 here, from 0 in the
\* source, so `start` is the number of elements skipped in both.
NoPos == 0

\* lines 32-39: the first position after the `start` skipped ones that
\* holds target
find_next_word_pos(word_vec, target, start) ==
  LET found == {n \in (start + 1)..Len(word_vec) : word_vec[n] = target}
  IN IF found = {} THEN NoPos
     ELSE CHOOSE n \in found : \A m \in found : n <= m

\* lines 41-47
replace_char(str, target, pos) ==
  IF pos <= Len(str) THEN [str EXCEPT ![pos] = target] ELSE str

\* line 88: guessed_word_pos.entry(guess_word).or_insert(0); the entry is
\* read and never written again
OrInsert(map, key) ==
  [k \in DOMAIN map \cup {key} |-> IF k \in DOMAIN map THEN map[k] ELSE 0]

\* lines 69-111: one pass of the game loop, the player typing `word`
Guess(word) ==
  /\ hangman_pc = "guess"
  /\ have_guessed_word' = Append(have_guessed_word, word)
  /\ guessed_word_pos' = OrInsert(guessed_word_pos, word)
  /\ LET pos == guessed_word_pos'[word]
         new_pos == find_next_word_pos(secret_word_chars, word, pos)
     IN /\ IF new_pos = NoPos \/ new_pos \in guessed_word_set
           THEN /\ count' = count - 1
                /\ UNCHANGED <<guessed_word_count, guessed_word,
                               guessed_word_set>>
           ELSE /\ guessed_word_count' = guessed_word_count + 1
                /\ guessed_word' = replace_char(guessed_word, word, new_pos)
                /\ guessed_word_set' = guessed_word_set \cup {new_pos}
                /\ UNCHANGED count
        /\ hangman_pc' =
             IF guessed_word_count' = Len(secret_word_chars) THEN "won"
             ELSE IF count' = 0 THEN "lost"
             ELSE "guess"
  /\ UNCHANGED secret_word_chars
  /\ UNCHANGED notHangmanVars

\* ---------------------------------------------------------- SpecHangman
\* lines 50-67: main up to the game loop, for any secret word
InitHangman ==
  /\ ProxyInit
  /\ RdiffIdle
  /\ PmapIdle
  /\ DeetIdle
  /\ secret_word_chars \in Words
  /\ count = NUM_INCORRECT_GUESSES
  /\ guessed_word = [n \in 1..Len(secret_word_chars) |-> "-"]
  /\ guessed_word_count = 0
  /\ guessed_word_pos = <<>>
  /\ have_guessed_word = <<>>
  /\ guessed_word_set = {}
  /\ hangman_pc = "guess"

NextHangman == \E word \in GuessLetters : Guess(word)

SpecHangman == InitHangman /\ [][NextHangman]_vars

\* ==================================================== Part 1: claims
\* ================================================= claims under SpecPool
\* C1: in every reachable state every address in the healthy set is one of
\* the configured upstream addresses.
C1_HealthySubsetConfigured ==
  ToSet(active_upstream_addresses) \subseteq ToSet(upstream_addresses)

\* A handler has demoted and re-added while the health checker has filled
\* the set.
C1_Witness ==
  /\ \E h \in Handlers : pc[h] = "connect2"
  /\ hc_ok # {}
  /\ Len(active_upstream_addresses) = Len(upstream_addresses)

AcquireEnded(h) == pc[h] \in {"connected", "failed", "panicked"}

\* The first TcpStream::connect of h returned an error.
FirstAttemptFailed(h) ==
  \/ pc[h] \in {"delete", "pick2", "add", "connect2", "failed"}
  \/ pc[h] = "connected" /\ attempts[h] = 2
  \/ pc[h] = "panicked" /\ attempts[h] = 1

\* C2: an acquire whose first connection attempt failed makes exactly one
\* further attempt and ends with a connection or with a connection error
\* returned to its caller, in no other way.
C2_OneRetryThenError ==
  \A h \in Handlers :
    (AcquireEnded(h) /\ FirstAttemptFailed(h)) =>
      (attempts[h] = 2 /\ pc[h] \in {"connected", "failed"})

\* C3: when the demotion step of a failed first attempt completes, the
\* address the attempt failed on is not in the healthy set.
C3_FailedAddressDemoted ==
  [][\A h \in Handlers :
       (pc[h] = "delete" /\ pc'[h] = "pick2") =>
         ~Contains(active_upstream_addresses', upstream_ip[h])]_vars

\* C4: when a health-check sweep completes, the healthy set holds exactly the
\* configured addresses whose probe in that sweep returned 200, each once.
C4_ReplaceNotMerge ==
  [][(hc_pc = "probing" /\ hc_pc' = "sleeping") =>
       /\ ToSet(active_upstream_addresses') = hc_ok'
       /\ Len(active_upstream_addresses') = Cardinality(hc_ok')]_vars

\* A sweep has completed in which an address that was healthy before did not
\* answer 200, while another did, and the set is the sweep's result.
C4_Witness ==
  /\ hc_pc = "sleeping"
  /\ hc_idx = Len(upstream_addresses) + 1
  /\ hc_before \ hc_ok # {}
  /\ hc_ok # {}
  /\ ToSet(active_upstream_addresses) = hc_ok

\* C5: the health checker never stops, whatever a probe's outcome.
C5_CheckerNeverStops == hc_pc # "stopped"

\* ================================================= claims under SpecConn
\* The rate limiter's decisions about one client IP, in lock order
IpLog(ip) == SelectSeq(log, LAMBDA e : e.ip = ip)

\* C6: with limit N > 0, of the requests of one client IP that start from an
\* empty history and all fall within 60 seconds, exactly the first N are
\* admitted and every later one is rejected.
C6_FirstNAdmitted ==
  max_requests_per_minute > 0 =>
    \A ip \in ClientIPs :
      LET L == IpLog(ip) IN
      \A j \in 1..Len(L) :
        L[j].kept = 0 =>
          \A m \in j..Len(L) :
            (\A a, b \in j..m : L[a].now - L[b].now <= Window) =>
              \A k \in j..m :
                L[k].admitted <=> (k - j < max_requests_per_minute)

\* Limit 2, three requests of one IP within 60 seconds, the third rejected.
C6_Witness ==
  /\ max_requests_per_minute = 2
  /\ \E ip \in ClientIPs :
       LET L == IpLog(ip) IN
       /\ Len(L) = 3
       /\ \A a, b \in 1..3 : L[a].now - L[b].now <= Window
       /\ L[1].now # L[3].now
       /\ ~L[3].admitted

\* The latest timestamp recorded for a client
LatestRecorded(entry) ==
  CHOOSE t \in ToSet(entry) : \A u \in ToSet(entry) : u <= t

\* The client of h has used up its quota.
QuotaExhausted(h) ==
  /\ client_ip[h] \in DOMAIN request_state
  /\ Len(request_state[client_ip[h]]) >= max_requests_per_minute

C8_LimitZeroNoOp ==
  max_requests_per_minute = 0 =>
    /\ DOMAIN request_state = {}
    /\ log = <<>>
    /\ \A h \in Conns : pc[h] # "rate_lock" /\ ~Contains(sent[h], 429)

\* Limit 0 and a connection that has had three requests forwarded.
C8_Witness ==
  /\ max_requests_per_minute = 0
  /\ \E h \in Conns : forwarded[h] = 3

\* C9: a request the rate limiter rejects is answered 429, is not forwarded,
\* and leaves the handler reading the next request.
C9_RejectAnswers429 ==
  [][\A h \in Conns :
       (/\ pc[h] = "rate_lock" /\ pc'[h] # "rate_lock"
        /\ ~log'[Len(log')].admitted)
       => /\ sent'[h] = Append(sent[h], 429)
          /\ forwarded'[h] = forwarded[h]
          /\ pc'[h] = "read_request"]_vars

\* A connection answered 429 and had a later request forwarded.
C9_Witness ==
  \E h \in Conns :
    \E i \in 1..(Len(sent[h]) - 1) :
      sent[h][i] = 429 /\ sent[h][i + 1] = 200

\* C10: a request that does not parse is answered 400 (413 when too large),
\* is not forwarded and leaves the handler reading the next request; a
\* handler ends without a response only on a clean EOF or a client
\* connection error.
C10_ParseErrorAnswered ==
  [][\A h \in Conns :
       /\ (nreq'[h] # nreq[h] /\ last_req'[h] \in ParseErrors) =>
            /\ sent'[h] = Append(sent[h],
                 IF last_req'[h] = "body_too_large" THEN 413 ELSE 400)
            /\ forwarded'[h] = forwarded[h]
            /\ pc'[h] = "read_request"
       /\ (nreq'[h] # nreq[h] /\ last_req'[h] \in ClientClosed) =>
            (pc'[h] = "done" /\ sent'[h] = sent[h])
       /\ (pc[h] # "done" /\ pc'[h] = "done" /\ sent'[h] = sent[h]) =>
            (nreq'[h] # nreq[h] /\ last_req'[h] \in ClientClosed)]_vars

\* A connection answered 413, then 400, then had a valid request forwarded.
C10_Witness ==
  \E h \in Conns : sent[h] = <<413, 400, 200>>

C14_ConnectedToSnapshotAddress ==
  [][\A h \in Handlers :
       /\ (upstream_ip'[h] # upstream_ip[h] /\ upstream_ip'[h] # NoPick) =>
            /\ pc[h] \in {"pick1", "pick2"}
            /\ Contains(active_upstream_addresses, upstream_ip'[h])
       /\ (pc[h] \in {"pick1", "pick2"} /\ pc'[h] \in {"connect1", "add"}) =>
            Contains(active_upstream_addresses, upstream_ip'[h])
       /\ (pc'[h] = "connected" /\ pc[h] # "connected") =>
            /\ pc[h] \in {"connect1", "connect2"}
            /\ upstream_ip[h] # NoPick
            /\ upstream_ip'[h] = upstream_ip[h]]_vars

\* A stream was returned to an address that a sweep has since found unhealthy:
\* it was in the Vec when the call read it.
C14_Witness ==
  \E h \in Handlers :
    /\ pc[h] = "connected"
    /\ attempts[h] = 2
    /\ upstream_ip[h] \in hc_before \ ToSet(active_upstream_addresses)
    /\ hc_pc = "sleeping"

\* ===================================== more claims under SpecConn
\* C20: a rejected request is not recorded: after a rejecting pass of the
\* rate limiter the client's VecDeque is the old one without its leading
\* timestamps older than 60 s, and `now` has not been pushed.
C20_RejectedNotRecorded ==
  [][\A h \in Conns :
       (pc[h] = "rate_lock" /\ sent'[h] = Append(sent[h], 429)) =>
         LET ip == client_ip[h]
             old == IF ip \in DOMAIN request_state
                    THEN request_state[ip] ELSE <<>>
             new == request_state'[ip]
             k == Len(old) - Len(new)
         IN /\ k >= 0
            /\ new = SubSeq(old, k + 1, Len(old))
            /\ \A n \in 1..k : now[h] - old[n] > Window
            /\ new # <<>> => now[h] - new[1] <= Window
            /\ \A other \in DOMAIN request_state \ {ip} :
                 request_state'[other] = request_state[other]]_vars

\* A client at its quota was rejected twice, a second apart: its VecDeque
\* still holds only the admitted request's time.
C20_Witness ==
  \E ip \in DOMAIN request_state :
    /\ max_requests_per_minute = 1
    /\ Len(log) = 3
    /\ \A n \in 1..3 : log[n].ip = ip
    /\ log[1].admitted /\ ~log[2].admitted /\ ~log[3].admitted
    /\ log[3].now > log[2].now
    /\ request_state[ip] = <<log[1].now>>

\* C21: every client's VecDeque is ordered oldest first, whatever the
\* interleaving of the connections' Instant::now() and lock().
C21_TimestampsOldestFirst ==
  \A ip \in DOMAIN request_state :
    \A a, b \in 1..Len(request_state[ip]) :
      a < b => request_state[ip][a] <= request_state[ip][b]

\* C22 (under SpecConnBusy): the limit counts a client IP's requests over
\* all its connections: with limit N > 0, among the requests of one IP no
\* more than N whose timestamps lie within 60 seconds are admitted.
C22_LimitPerIpAcrossConnections ==
  max_requests_per_minute > 0 =>
    \A ip \in ClientIPs :
      LET L == IpLog(ip) IN
      \A j \in 1..Len(L) :
        L[j].admitted =>
          Cardinality({k \in 1..Len(L) :
                         /\ L[k].admitted
                         /\ L[j].now <= L[k].now
                         /\ L[k].now <= L[j].now + Window})
            <= max_requests_per_minute

\* ================================================= claims under SpecFull
\* h has taken a step of Forward.
Exchanged(h) == pc[h] = "forward" /\ pc'[h] # "forward"

\* C11: when acquire returns an error, or the write to or the read from the
\* upstream fails, the handler answers 502 and ends: it reads no further
\* request and selects no upstream again.
C11_UpstreamErrorEnds ==
  [][\A h \in Solo :
       /\ (pc[h] = "connect2" /\ pc'[h] \notin {"connect2", "connected"}) =>
            (pc'[h] = "failed" /\ sent'[h] = Append(sent[h], 502))
       /\ (Exchanged(h) /\ last_up'[h] \in {"write_failed", "read_failed"}) =>
            (pc'[h] = "done" /\ sent'[h] = Append(sent[h], 502))
       /\ pc[h] \in {"failed", "done"} =>
            /\ pc'[h] = pc[h]
            /\ nreq'[h] = nreq[h]
            /\ attempts'[h] = attempts[h]
            /\ upstream_ip'[h] = upstream_ip[h]
            /\ sent'[h] = sent[h]]_vars

\* A connection had one request relayed, then the upstream failed: 502, ended,
\* while the health checker went on and the set is not empty.
C11_Witness ==
  \E h \in Solo :
    /\ pc[h] = "done"
    /\ sent[h] = <<200, 502>>
    /\ last_up[h] = "read_failed"
    /\ hc_pc = "probing"
    /\ active_upstream_addresses # <<>>

\* h is inside connect_to_upstream.
InSelector(h) ==
  pc[h] \in {"check_empty", "backoff", "pick1", "connect1", "delete",
             "pick2", "add", "connect2"}

\* h is inside the request loop, or has returned from it.
InLoop(h) == pc[h] \in {"read_request", "rate_lock", "forward", "done"}

\* C23: connect_to_upstream runs once per client connection, before the
\* first request is read, and never again: no request is read or forwarded
\* while it runs, and from the request loop the handler never goes back to
\* it, so every request is forwarded on the stream it returned.
C23_SelectorOncePerConnection ==
  [][\A h \in Solo :
       /\ InSelector(h) => (nreq'[h] = 0 /\ forwarded'[h] = 0)
       /\ InLoop(h) =>
            /\ pc'[h] \in {"read_request", "rate_lock", "forward", "done"}
            /\ upstream_ip'[h] = upstream_ip[h]
            /\ upstream_ip[h] # NoPick
            /\ attempts'[h] = attempts[h]]_vars

\* After a failover at connection start two requests were relayed and a third
\* failed at the upstream: the handler ended without selecting again.
C23_Witness ==
  \E h \in Solo :
    /\ pc[h] = "done"
    /\ attempts[h] = 2
    /\ forwarded[h] = 3
    /\ sent[h] = <<200, 200, 502>>

\* ========================================== claims under SpecAcquireFair
\* C12 as stated: with no upstream healthy, a client that connects is
\* answered 502 once the backoff retries are exhausted, unless an upstream
\* turns healthy meanwhile.
C12_EmptySetAnswers502 ==
  \A h \in Solo :
    (pc[h] = "backoff") ~>
      (sent[h] = <<502>> \/ active_upstream_addresses # <<>>)

\* C12: connect_to_upstream has no retry budget on an empty set; the only
\* error it returns, and the only 502 it causes, follows two failed
\* connection attempts.
C12_ErrorOnlyAfterTwoAttempts ==
  \A h \in Solo :
    (pc[h] = "failed" \/ sent[h] # <<>>) =>
      (attempts[h] = 2 /\ sent[h] = <<502>>)

\* A full sweep found no upstream healthy; the handler saw the empty set, has
\* made no attempt and has answered nothing.
C12_Witness ==
  \E h \in Solo :
    /\ pc[h] = "backoff"
    /\ active_upstream_addresses = <<>>
    /\ hc_pc = "sleeping"
    /\ hc_idx = Len(upstream_addresses) + 1
    /\ hc_ok = {}
    /\ attempts[h] = 0
    /\ sent[h] = <<>>

\* ===================================== more claims under SpecPool
\* C16: the demotion after a failed first attempt removes no address other
\* than the one the attempt failed on, and changes nothing when that address
\* is no longer in the Vec.
C16_DemotionRemovesOnlyFailed ==
  [][\A h \in Handlers :
       (pc[h] = "delete" /\ pc'[h] = "pick2") =>
         /\ ToSet(active_upstream_addresses) \ ToSet(active_upstream_addresses')
              \subseteq {upstream_ip[h]}
         /\ ~Contains(active_upstream_addresses, upstream_ip[h]) =>
              active_upstream_addresses' = active_upstream_addresses]_vars

\* C17: with distinct configured addresses no address occurs twice in the
\* Vec, whatever sweeps, demotions and re-adds interleave, and the re-add of
\* an address that is present leaves the Vec as it is.
C17_AddIdempotentNoDuplicates ==
  [][/\ Cardinality(ToSet(active_upstream_addresses')) =
          Len(active_upstream_addresses')
     /\ \A h \in Handlers :
          (pc[h] = "add" /\ pc'[h] = "connect2"
             /\ Contains(active_upstream_addresses, upstream_ip[h])) =>
            active_upstream_addresses' = active_upstream_addresses]_vars

\* Both cases of the re-add have happened: one handler re-added the address
\* it took after another handler's demotion had removed it, and the Vec
\* holds both addresses once.
C17_Witness ==
  \E h, g \in Handlers :
    /\ h # g
    /\ pc[h] = "connect2"
    /\ pc[g] = "connect2"
    /\ upstream_ip[h] # upstream_ip[g]
    /\ hc_pc = "sleeping"
    /\ Len(active_upstream_addresses) = 2
    /\ hc_ok # ToSet(active_upstream_addresses)

\* h reads the Vec: the emptiness check or one of the two picks.
Snapshot(h) ==
  pc[h] \in {"check_empty", "pick1", "pick2"} /\ pc'[h] # pc[h]

\* C18: no read of the Vec by connect_to_upstream sees a sweep half done: it
\* is taken while the health checker sleeps between two whole sweeps, never
\* over a cleared or partly rebuilt Vec, also when a probe failed part-way.
C18_SnapshotSeesWholeSweep ==
  [][\A h \in Handlers : Snapshot(h) => hc_pc = "sleeping"]_vars

\* C19: while a sweep probes, the lock is free (a handler at the emptiness
\* check can take its snapshot) and the Vec still holds what it held when the
\* sweep began.
C19_ProbingHoldsNoLock ==
  hc_pc = "probing" =>
    /\ \A h \in Handlers : pc[h] = "check_empty" => ENABLED CheckEmpty(h)
    /\ ToSet(active_upstream_addresses) = hc_before

\* C26: read_upstream_addresses is never evaluated on an empty Vec, neither
\* for the first pick nor for the pick after a demotion: no handler aborts
\* in gen_range or on the index.
C26_PickOnNonEmpty ==
  [][\A h \in Handlers :
       (pc[h] \in {"pick1", "pick2"} /\ pc'[h] # pc[h]) =>
         /\ active_upstream_addresses # <<>>
         /\ pc'[h] # "panicked"]_vars

\* ================================================= claims under SpecMain
\* C24: with an empty health-check path the health checker is never
\* started, the Vec is empty in every state, and every handler stays in the
\* check-and-sleep loop of connect_to_upstream, where it can always take its
\* next step: no connection attempt, no request read, no response sent.
C24_EmptyPathStalls ==
  active_health_check_path = "" =>
    /\ hc_pc = "not_spawned"
    /\ active_upstream_addresses = <<>>
    /\ \A h \in Conns :
         /\ pc[h] \in {"check_empty", "backoff"}
         /\ ENABLED Acquire(h)
         /\ attempts[h] = 0
         /\ nreq[h] = 0
         /\ sent[h] = <<>>

\* Empty path: both handlers have seen the empty Vec and sleep.
C24_Witness ==
  /\ active_health_check_path = ""
  /\ \A h \in Conns : pc[h] = "backoff"

\* C25: with interval 0 the health checker runs no repeated sweep: no sweep
\* starts once a sweep has been completed.
C25_IntervalZeroNoRepeat ==
  [][(/\ active_health_check_interval = 0
      /\ hc_pc = "sleeping"
      /\ hc_pc' = "probing")
     => hc_idx # Len(upstream_addresses) + 1]_vars

\* ==================================================== Part 2: claims
\* ================================================== claims under SpecLcs
\* first n elements of s
Prefix(s, n) == SubSeq(s, 1, n)

\* every subsequence of s
RECURSIVE Subseqs(_)
Subseqs(s) ==
  IF s = <<>> THEN {<<>>}
  ELSE LET rest == Subseqs(Tail(s))
       IN rest \cup {<<Head(s)>> \o t : t \in rest}

\* the length of a longest common subsequence of s and t
LcsLength(s, t) ==
  LET common == Subseqs(s) \cap Subseqs(t)
  IN CHOOSE n \in 0..Len(s) :
       /\ \E u \in common : Len(u) = n
       /\ \A u \in common : Len(u) <= n

\* C15: lcs returns a grid of (len(seq1)+1) x (len(seq2)+1) cells whose
\* cell (i, j) is the length of a longest common subsequence of the first i
\* elements of seq1 and the first j elements of seq2; row 0 and column 0 are
\* zero; the call does not panic.
C15_LcsGrid ==
  /\ lcs_pc # "panicked"
  /\ lcs_pc = "done" =>
       /\ GridSize(grid) = <<Len(seq1) + 1, Len(seq2) + 1>>
       /\ \A i \in 0..Len(seq1) : GridGet(grid, i, 0) = {0}
       /\ \A j \in 0..Len(seq2) : GridGet(grid, 0, j) = {0}
       /\ \A i \in 0..Len(seq1), j \in 0..Len(seq2) :
            GridGet(grid, i, j) = {LcsLength(Prefix(seq1, i), Prefix(seq2, j))}

\* lcs has returned for "abc" against "acb": the last cell is 2.
C15_Witness ==
  /\ lcs_pc = "done"
  /\ seq1 = <<"a", "b", "c">>
  /\ seq2 = <<"a", "c", "b">>
  /\ GridGet(grid, 3, 3) = {2}
  /\ GridGet(grid, 2, 3) = {2}
  /\ GridGet(grid, 3, 2) = {2}
  /\ GridGet(grid, 2, 2) = {1}

\* ==================================================== Part 3: claims
\* ========================================== claims under SpecParallelMap
\* how often v occurs in seq
Occurrences(seq, v) == Cardinality({n \in DOMAIN seq : seq[n] = v})

\* f applied to every element of seq
Mapped(seq) == [n \in DOMAIN seq |-> f(seq[n])]

\* C27: parallel_map returns one output per input element, for every
\* num_threads >= 0: the returned vector has the input's length and holds
\* each f(x) as often as the input maps to it.
C27_OneOutputPerInput ==
  pm_pc = "done" =>
    /\ Len(output_vec) = Len(input_vec)
    /\ \A v \in {f(x) : x \in Items} :
         Occurrences(output_vec, v) = Occurrences(Mapped(input_vec), v)

\* C28: with num_threads >= 1 element i of the returned vector is f applied
\* to element i of the input.
C28_OrderPreserved ==
  (pm_pc = "done" /\ num_threads >= 1) => output_vec = Mapped(input_vec)

\* ==================================================== Part 4: claims
\* ================================================= claims under SpecDeet
\* C29: a Continue command read while no inferior exists reports the error
\* and leaves the debugger at its prompt with its state unchanged; it does
\* not abort the debugger.
C29_ContinueWithoutInferior ==
  [][(Continue /\ inferior = "None") =>
       /\ deet_pc' = "prompt"
       /\ deet_out' = "Error no subprocess is running!"
       /\ UNCHANGED <<inferior, current_result, breakpoints_list,
                      breakpoints_map, breakpoint_count>>]_vars

\* ==================================================== Part 5: claims
\* ============================================== claims under SpecHangman
\* the secret word holds letter at a position not yet revealed
Unrevealed(letter) ==
  \E n \in DOMAIN secret_word_chars :
    secret_word_chars[n] = letter /\ guessed_word[n] = "-"

\* C30: a guess of a letter that still has an unrevealed occurrence in the
\* secret word is never counted as incorrect, so every word, also one with
\* a repeated letter, can be won.
C30_UnrevealedGuessNotIncorrect ==
  [][\A word \in GuessLetters :
       (Guess(word) /\ Unrevealed(word)) => count' = count]_vars

====
